---- MODULE Spec2Model ----
(***************************************************************************)
(* Model of src/db/__init__.py: the scoped session context DB.ctx and the  *)
(* streaming mapper DBMapper.map / DBMapper.each.                          *)
(*                                                                         *)
(* The table is a sequence of rows, row i holding the value store[i].      *)
(* A session is a record: its status, the list of the operations called on *)
(* it, and its working set (the loaded rows and their in-memory values).   *)
(* The transform of a pass increments the row's value and then returns,    *)
(* raises an Exception, or raises a BaseException that is no Exception     *)
(* (KeyboardInterrupt, SystemExit).                                        *)
(*                                                                         *)
(* Spec       the mapper and caller blocks under DB.ctx                    *)
(* UpsertSpec sequences of insert_or_update / insert_or_ignore calls       *)
(* CallSpec   one upsert call over every combination of arguments, with    *)
(*            the rendering of its INSERT by append_string                 *)
(* DbSpec     DB.init_db, DB() and DB.session called from two threads      *)
(* FilterSpec DBMapper.filter set and used by a pass                       *)
(***************************************************************************)
EXTENDS Integers, Sequences, FiniteSets, TLC

\* ---- bounds ----
MaxRows == 3
MaxQty == 1
MaxPasses == 2
MaxVal == 1
MaxCalls == 2
MaxDbCalls == 3
MaxIdents == 1

VARIABLES
    store,      \* committed content of the table: row i has value store[i]
    orig,       \* the table when the current pass / block began
    session,    \* the session of the current pass / block
    op,         \* what the caller runs: "idle", "map", "each", "ctx"
    tee,        \* the tee argument of map
    pc,         \* position of the map generator / the ctx block
    cursor,     \* rows the query iterator has delivered so far
    visited,    \* rows the transform was called on, in order
    failed,     \* rows on which the transform raised an Exception
    produced,   \* items yielded to the consumer of map
    ctxexit,    \* how the with-block of DB.ctx was left
    exit,       \* how the pass ended
    raised,     \* the exception the caller sees coming out of map / each / ctx
    passes,     \* passes and blocks begun so far
    written,    \* rows a caller's block changed and has not committed
    table,      \* rows of the widgets table as the upsert session sees it
    before,     \* the table before the latest upsert call
    call,       \* the latest upsert call: arguments, statement, result
    prev,       \* the upsert call before the latest one
    ncalls,     \* upsert calls made so far
    pending,    \* the arguments of a call that is about to be made
    local,      \* DB._db: per thread, its engine / Session / AutoSession
    engines,    \* engines created so far (engine n is the n-th created)
    forced,     \* calls of init_db(force=True) so far
    ndb,        \* calls on DB so far
    last,       \* the latest call on DB and its outcome
    idents,     \* identifiers of the table whose name contains RETURNING
    _filter,    \* DBMapper._filter
    fset,       \* the value last assigned to DBMapper.filter
    frows,      \* the table a filtered pass runs over
    fvisit      \* the latest filtered pass: its filter, outcome and rows

\* the state of the mapper and of a block under DB.ctx
mvars == <<store, orig, session, op, tee, pc, cursor, visited, failed,
           produced, ctxexit, exit, raised, passes, written>>

\* the state of the other operations of the module
uvars == <<table, before, call, prev, ncalls>>
dvars == <<local, engines, forced, ndb, last>>
fvars == <<_filter, fset, frows, fvisit>>
aux == <<uvars, pending, dvars, idents, fvars>>

vars == <<mvars, aux>>

\* ---- values ----
None == [row |-> 0, qty |-> 0]
Entry(i, v) == [row |-> i, qty |-> v]
EmptyDirty == [i \in {} |-> 0]
NoSession == [status |-> "none", log |-> <<>>, dirty |-> EmptyDirty]

RECURSIVE Count(_, _)
Count(s, x) ==
    IF s = <<>> THEN 0
    ELSE (IF Head(s) = x THEN 1 ELSE 0) + Count(Tail(s), x)

\* position of the first x in s, 0 when absent
RECURSIVE IndexOf(_, _)
IndexOf(s, x) ==
    IF s = <<>> THEN 0
    ELSE IF Head(s) = x THEN 1
    ELSE IF IndexOf(Tail(s), x) = 0 THEN 0
    ELSE 1 + IndexOf(Tail(s), x)

\* ---- the session (sqlalchemy.orm.Session, as DB and DBMapper use it) ----

\* DB.session: self._db.Session()
new_session == [status |-> "open", log |-> <<>>, dirty |-> EmptyDirty]

\* loading a row through the query and mutating it in the transform
Mutate(v) == v + 1
load_and_mutate(s, row, v) ==
    [s EXCEPT !.dirty = [i \in DOMAIN s.dirty \cup {row} |->
                            IF i = row THEN Mutate(v) ELSE s.dirty[i]]]

\* session.expunge(entry): the row leaves the working set
expunge(s, row) ==
    [s EXCEPT !.log = Append(@, "expunge"),
              !.dirty = [i \in DOMAIN s.dirty \ {row} |-> s.dirty[i]]]

\* session.commit(): the working set is flushed and made durable
commit(ss) ==
    [session |-> [ss.session EXCEPT !.log = Append(@, "commit"),
                                    !.dirty = EmptyDirty],
     store |-> [i \in 1..Len(ss.store) |->
                  IF i \in DOMAIN ss.session.dirty
                  THEN ss.session.dirty[i] ELSE ss.store[i]]]

\* session.rollback(): the working set is discarded
rollback(ss) ==
    [session |-> [ss.session EXCEPT !.log = Append(@, "rollback"),
                                    !.dirty = EmptyDirty],
     store |-> ss.store]

\* session.close(): the working set is discarded, the session released
close(ss) ==
    [session |-> [ss.session EXCEPT !.log = Append(@, "close"),
                                    !.dirty = EmptyDirty,
                                    !.status = "closed"],
     store |-> ss.store]

SessionOp(o, ss) ==
    CASE o = "commit" -> commit(ss)
      [] o = "rollback" -> rollback(ss)
      [] o = "close" -> close(ss)

RECURSIVE RunOps(_, _)
RunOps(ops, ss) ==
    IF ops = <<>> THEN ss
    ELSE RunOps(Tail(ops), SessionOp(Head(ops), ss))

\* ---- records and the upsert engine ----
\* the entity of the spec's scenario: widgets(id PK, name, qty).  A record
\* gives every declared column a value or NULL (Python's None); values are
\* small integers, 0 included.
Cols == {"id", "name", "qty"}
Unique == {"id"}
NULL == -1
Vals == 0..MaxVal
Entries ==
    {e \in [Cols -> Vals \cup {NULL}] : e["id"] \in {NULL, 1}}

\* variant: a column is kept when its value is truthy
get_model_dict_truthy(model) ==
    [c \in {k \in Cols : model[k] # NULL /\ model[k] # 0} |-> model[c]]

\* get_model_dict(model): the columns whose value is not None
get_model_dict(model) ==
    [c \in {k \in Cols : model[k] # NULL} |-> model[c]]

\* the update_fields argument: omitted (None) or a set of columns
NoFields == [given |-> FALSE, fields |-> {}]
Fields(fs) == [given |-> TRUE, fields |-> fs]

\* variant: exclude_fields is not subtracted
update_set_keeps_excluded(model_dict, update_fields, exclude_fields) ==
    IF ~update_fields.given THEN DOMAIN model_dict
    ELSE update_fields.fields

\* variant: update_fields is ignored, every present column is updated
update_set_all_present(model_dict, update_fields, exclude_fields) ==
    DOMAIN model_dict \ exclude_fields

\* the columns of ON_CONFLICT_DO_UPDATE's SET list
update_set(model_dict, update_fields, exclude_fields) ==
    (IF ~update_fields.given THEN DOMAIN model_dict
     ELSE update_fields.fields) \ exclude_fields

\* insert_or_update: the statement handed to session.execute
insert_or_update(entry, column, update_fields, exclude_fields) ==
    LET model_dict == get_model_dict(entry) IN
    [kind |-> "DO UPDATE",
     params |-> model_dict,
     column |-> column,
     updates |-> update_set(model_dict, update_fields, exclude_fields)]

\* variant: the statement overwrites the conflicting row
insert_or_ignore_overwrites(entry) ==
    [kind |-> "DO UPDATE",
     params |-> get_model_dict(entry),
     column |-> "id",
     updates |-> DOMAIN get_model_dict(entry)]

\* insert_or_ignore: the statement handed to session.execute
insert_or_ignore(entry) ==
    [kind |-> "DO NOTHING",
     params |-> get_model_dict(entry),
     column |-> "",
     updates |-> {}]

\* does the store accept the statement?  An empty SET list is a syntax
\* error, a SET column without a bound parameter cannot be rendered, and
\* ON CONFLICT (column) needs a unique column.
Executable(stmt) ==
    stmt.kind = "DO UPDATE" =>
        /\ stmt.updates # {}
        /\ stmt.updates \subseteq DOMAIN stmt.params
        /\ stmt.column \in Unique

\* the key of the row the statement inserts: the given id, or the next
\* value of the key's sequence (which hands out 2, 3, ...)
NextId(t) == 2 + Cardinality({r \in t : r["id"] # 1})
KeyOf(stmt, t) ==
    IF "id" \in DOMAIN stmt.params THEN stmt.params["id"] ELSE NextId(t)

\* session.execute(insert ... ON CONFLICT ...): the table afterwards and
\* the result's rowcount (-1: the statement raised)
execute(stmt, t) ==
    LET key == KeyOf(stmt, t)
        hit == {r \in t : r["id"] = key}
        new == [c \in Cols |->
                  IF c \in DOMAIN stmt.params THEN stmt.params[c]
                  ELSE IF c = "id" THEN key ELSE NULL]
        upd(r) == [c \in Cols |->
                     IF c \in stmt.updates THEN stmt.params[c] ELSE r[c]]
    IN
    IF ~Executable(stmt) THEN [table |-> t, rowcount |-> -1]
    ELSE IF hit = {} THEN [table |-> t \cup {new}, rowcount |-> 1]
    ELSE IF stmt.kind = "DO NOTHING" THEN [table |-> t, rowcount |-> 0]
    ELSE [table |-> (t \ hit) \cup {upd(r) : r \in hit}, rowcount |-> 1]

\* ---- rendering the INSERT (append_string) ----
\* a statement text is a sequence of chunks: "RETURNING" is an occurrence
\* of that word, " " a blank, "x" any text without the word, CLAUSE the
\* text of the conflict clause
CLAUSE == "ON CONFLICT"
ReturningClause == <<" ", "RETURNING", " ", "x">>

\* the text before a RETURNING clause: k identifiers of the table carry
\* the word RETURNING in their name
RECURSIVE InsertText(_)
InsertText(k) ==
    IF k = 0 THEN <<"x">> ELSE InsertText(k - 1) \o <<"RETURNING", "x">>

\* compiler.visit_insert: the dialect adds RETURNING for the primary key
\* when the insert does not supply it
visit_insert(stmt, k) ==
    InsertText(k) \o (IF "id" \in DOMAIN stmt.params THEN <<>>
                      ELSE ReturningClause)

\* str.replace(old, new) over chunks
RECURSIVE Replace(_, _, _)
Replace(str, old, new) ==
    IF str = <<>> THEN <<>>
    ELSE (IF Head(str) = old THEN new ELSE <<Head(str)>>)
         \o Replace(Tail(str), old, new)

\* append_string(insert, compiler): clause is
\* insert.kwargs['postgresql_append_string'], <<>> when not given
append_string(str, clause) ==
    IF clause # <<>>
    THEN IF Count(str, "RETURNING") = 0
         THEN str \o <<" ">> \o clause
         ELSE Replace(str, "RETURNING",
                      <<" ">> \o clause \o <<" ", "RETURNING", " ">>)
    ELSE str

\* the arguments of a call
Args(fn, entry, column, uf, ex) ==
    [fn |-> fn, entry |-> entry, column |-> column, update_fields |-> uf,
     exclude_fields |-> ex]
NoArgs == Args("none", [c \in Cols |-> NULL], "", NoFields, {})
IgnoreArgs(entry) == Args("insert_or_ignore", entry, "", NoFields, {})

\* the statement a call builds
Statement(a) ==
    IF a.fn = "insert_or_update"
    THEN insert_or_update(a.entry, a.column, a.update_fields,
                          a.exclude_fields)
    ELSE insert_or_ignore(a.entry)

NoCall ==
    [args |-> NoArgs, stmt |-> Statement(NoArgs), compiled |-> <<>>,
     rendered |-> <<>>, key |-> 0, rowcount |-> 0]
NoPrev == [fn |-> "none", key |-> 0, rowcount |-> 0]

UpsertStart ==
    /\ table = {}
    /\ before = {}
    /\ call = NoCall
    /\ prev = NoPrev
    /\ ncalls = 0

\* one call of insert_or_update / insert_or_ignore: build the statement,
\* execute it on the session, return the result
Upsert(a) ==
    LET stmt == Statement(a)
        compiled == visit_insert(stmt, idents)
        out == execute(stmt, table)
    IN
    /\ ncalls < MaxCalls
    /\ ncalls' = ncalls + 1
    /\ before' = table
    /\ prev' = [fn |-> call.args.fn, key |-> call.key,
                rowcount |-> call.rowcount]
    /\ call' = [args |-> a, stmt |-> stmt, compiled |-> compiled,
                rendered |-> append_string(compiled, <<CLAUSE>>),
                key |-> KeyOf(stmt, table), rowcount |-> out.rowcount]
    /\ table' = out.table

\* the argument combinations of the two-call scenarios: the defaults, the
\* conflict column excluded, and an explicit subset of the columns
ScenarioArgs ==
    {<<"id", NoFields, {}>>, <<"id", NoFields, {"id"}>>,
     <<"id", Fields({"qty"}), {}>>}

\* a caller runs insert_or_update(session, entry, column, ...)
InsertOrUpdate(entry, column, uf, ex) ==
    /\ pending = NoArgs
    /\ Upsert(Args("insert_or_update", entry, column, uf, ex))
    /\ UNCHANGED <<mvars, pending, dvars, idents, fvars>>

\* a caller runs insert_or_ignore(session, entry)
InsertOrIgnore(entry) ==
    /\ pending = NoArgs
    /\ Upsert(IgnoreArgs(entry))
    /\ UNCHANGED <<mvars, pending, dvars, idents, fvars>>

UpsertNext ==
    \/ \E e \in Entries, sc \in ScenarioArgs :
          InsertOrUpdate(e, sc[1], sc[2], sc[3])
    \/ \E e \in Entries : InsertOrIgnore(e)

\* ---- a single call, over every combination of arguments ----
AllArgs ==
    {Args("insert_or_update", e, col, uf, ex) :
        e \in Entries, col \in Cols,
        uf \in {NoFields} \cup {Fields(fs) : fs \in SUBSET Cols},
        ex \in SUBSET Cols}
    \cup {IgnoreArgs(e) : e \in Entries}

\* the call that was drawn is made
CallUpdate ==
    /\ pending.fn = "insert_or_update"
    /\ Upsert(pending)
    /\ pending' = NoArgs
    /\ UNCHANGED <<mvars, dvars, idents, fvars>>

CallIgnore ==
    /\ pending.fn = "insert_or_ignore"
    /\ Upsert(pending)
    /\ pending' = NoArgs
    /\ UNCHANGED <<mvars, dvars, idents, fvars>>

CallNext == CallUpdate \/ CallIgnore

\* ---- DB: the connection manager ----
\* DB._db is a threading.local created in the class body: the three
\* attributes the class body sets to None exist in the importing thread
\* only; in any other thread they are missing until that thread sets them.
Threads == {"main", "worker"}
UNSET == -2
ClassBody(t) ==
    IF t = "main"
    THEN [engine |-> NULL, Session |-> NULL, AutoSession |-> NULL]
    ELSE [engine |-> UNSET, Session |-> UNSET, AutoSession |-> UNSET]

Outcome(loc, n, result) == [local |-> loc, engines |-> n, result |-> result]

\* the body of the if: a new engine and two factories bound to it
Create(loc, n, t) ==
    Outcome([loc EXCEPT ![t] = [engine |-> n + 1, Session |-> n + 1,
                                AutoSession |-> n + 1]],
            n + 1, "ok")

\* variant: the guard is always true
init_db_always(loc, n, t, force) == Create(loc, n, t)

\* DB.init_db(force) called in thread t
init_db(loc, n, t, force) ==
    IF force THEN Create(loc, n, t)
    ELSE IF loc[t].engine = UNSET THEN Outcome(loc, n, "AttributeError")
    ELSE IF loc[t].engine = NULL THEN Create(loc, n, t)
    ELSE Outcome(loc, n, "ok")

NoDbCall ==
    [thread |-> "main", fn |-> "none", force |-> FALSE, result |-> "ok",
     engine |-> 0]

DbStart ==
    /\ local = [t \in Threads |-> ClassBody(t)]
    /\ engines = 0
    /\ forced = 0
    /\ ndb = 0
    /\ last = NoDbCall

DbCall(t, fn, force, out, eng) ==
    /\ ndb < MaxDbCalls
    /\ ndb' = ndb + 1
    /\ local' = out.local
    /\ engines' = out.engines
    /\ forced' = IF force THEN forced + 1 ELSE forced
    /\ last' = [thread |-> t, fn |-> fn, force |-> force,
                result |-> out.result, engine |-> eng]
    /\ UNCHANGED <<mvars, uvars, pending, idents, fvars>>

\* DB.init_db(force) in thread t
InitDb(t, force) ==
    DbCall(t, "init_db", force, init_db(local, engines, t, force), 0)

\* DB() in thread t: __init__ calls init_db(force=False)
Construct(t) ==
    DbCall(t, "DB", FALSE, init_db(local, engines, t, FALSE), 0)

\* DB.session in thread t: self._db.Session()
session_property(loc, n, t) ==
    CASE loc[t].Session = UNSET -> Outcome(loc, n, "AttributeError")
      [] loc[t].Session = NULL -> Outcome(loc, n, "TypeError")
      [] OTHER -> Outcome(loc, n, "ok")

GetSession(t) ==
    LET out == session_property(local, engines, t) IN
    DbCall(t, "session", FALSE, out,
           IF out.result = "ok" THEN local[t].Session ELSE 0)

DbNext ==
    \/ \E t \in Threads, force \in BOOLEAN : InitDb(t, force)
    \/ \E t \in Threads : Construct(t)
    \/ \E t \in Threads : GetSession(t)

\* ---- DBMapper.filter ----
\* a value is a criterion (an SQL expression over qty) or a sequence of
\* values; Python tuples are sequences
Expr(name) == [kind |-> "expr", name |-> name, items |-> <<>>]
Tuple(xs) == [kind |-> "seq", name |-> "", items |-> xs]
QtyGe1 == Expr("qty >= 1")
QtyLe1 == Expr("qty <= 1")
Sat(c, v) ==
    CASE c.name = "qty >= 1" -> v >= 1
      [] c.name = "qty <= 1" -> v <= 1

\* what a caller assigns to mapper.filter
Assignable ==
    {QtyGe1, QtyLe1, Tuple(<<>>), Tuple(<<QtyGe1>>),
     Tuple(<<QtyGe1, QtyLe1>>)}

\* the setter: def filter(self, *criterion): self._filter = criterion
filter_setter(value) == Tuple(<<value>>)

\* session.query(...).filter(*self._filter) and the loop over it: every
\* argument has to be an SQL expression, and the rows that satisfy all of
\* them are visited in store order
filtered_pass(rows, flt) ==
    IF \E j \in DOMAIN flt.items : flt.items[j].kind # "expr"
    THEN [status |-> "ArgumentError", rows |-> <<>>]
    ELSE [status |-> "ok",
          rows |-> SelectSeq([i \in 1..Len(rows) |-> i],
                             LAMBDA i : \A j \in DOMAIN flt.items :
                                           Sat(flt.items[j], rows[i]))]

NoPass == [set |-> FALSE, status |-> "none", rows |-> <<>>]

FilterStart ==
    /\ _filter = Tuple(<<>>)
    /\ fset = Tuple(<<>>)
    /\ fvisit = NoPass

\* mapper.filter = value
SetFilter(value) ==
    /\ _filter' = filter_setter(value)
    /\ fset' = value
    /\ fvisit' = NoPass
    /\ UNCHANGED <<mvars, uvars, pending, dvars, idents, frows>>

\* a pass of the mapper with the filter as it is
FilteredPass ==
    LET out == filtered_pass(frows, _filter) IN
    /\ fvisit.status = "none"
    /\ fvisit' = [set |-> _filter # Tuple(<<>>), status |-> out.status,
                  rows |-> out.rows]
    /\ UNCHANGED <<mvars, uvars, pending, dvars, idents, _filter, fset,
                   frows>>

FilterNext ==
    \/ \E value \in Assignable : SetFilter(value)
    \/ FilteredPass

\* ---- DB.ctx ----
\* kind is how the with-block is left: "normal", "Exception", or
\* "BaseException" (one that is no Exception: GeneratorExit,
\* KeyboardInterrupt)

\* variant: the session is closed before it is rolled back
ctx_exit_ops_close_first(kind) ==
    IF kind = "Exception" THEN <<"close", "rollback">> ELSE <<"close">>

\* variant: the close sits in an else clause instead of a finally clause
ctx_exit_ops_close_in_else(kind) ==
    CASE kind = "Exception" -> <<"rollback", "close">>
      [] kind = "normal" -> <<"close">>
      [] OTHER -> <<>>

\* variant: the except clause commits instead of rolling back
ctx_exit_ops_commit_on_error(kind) ==
    IF kind = "Exception" THEN <<"commit", "close">> ELSE <<"close">>

\* variant: ctx commits when the block ends normally
ctx_exit_ops_commit_on_success(kind) ==
    CASE kind = "Exception" -> <<"rollback", "close">>
      [] kind = "normal" -> <<"commit", "close">>
      [] OTHER -> <<"close">>

\* the except / finally clauses of ctx
ctx_exit_ops(kind) ==
    IF kind = "Exception" THEN <<"rollback", "close">> ELSE <<"close">>

\* what leaves the with statement: a caught Exception ends the generator
\* of ctx normally, so contextmanager suppresses it
ctx_propagates(kind) ==
    IF kind = "BaseException" THEN "BaseException" ELSE "none"

ctx_exit(kind, ss) == RunOps(ctx_exit_ops(kind), ss)

\* ---- DBMapper ----

\* the source query of a pass: the rows of the table, in store order
query(st) == [i \in 1..Len(st) |-> i]

\* variant: the loop stops after the first row
ExhaustedEarly(c, q) == c >= 1 \/ c = Len(q)

\* the for loop over the query is over once every row was delivered
Exhausted(c, q) == c = Len(q)

\* variant: the wrapper does not catch the transform's Exception
_wrapped_uncaught(row, v, kind) ==
    CASE kind = "ok" ->
           [result |-> Entry(row, Mutate(v)), expunge |-> FALSE,
            propagates |-> "none"]
      [] OTHER ->
           [result |-> None, expunge |-> FALSE, propagates |-> kind]

\* variant: the wrapper catches the Exception but keeps the row in the
\* working set
_wrapped_no_expunge(row, v, kind) ==
    CASE kind = "ok" ->
           [result |-> Entry(row, Mutate(v)), expunge |-> FALSE,
            propagates |-> "none"]
      [] kind = "Exception" ->
           [result |-> None, expunge |-> FALSE, propagates |-> "none"]
      [] kind = "BaseException" ->
           [result |-> None, expunge |-> FALSE,
            propagates |-> "BaseException"]

\* DBMapper._error_handler: the transform wrapped for one row.
\* kind is what the transform does after mutating the row: "ok",
\* "Exception" or "BaseException"
_wrapped(row, v, kind) ==
    CASE kind = "ok" ->
           [result |-> Entry(row, Mutate(v)), expunge |-> FALSE,
            propagates |-> "none"]
      [] kind = "Exception" ->
           [result |-> None, expunge |-> TRUE, propagates |-> "none"]
      [] kind = "BaseException" ->
           [result |-> None, expunge |-> FALSE,
            propagates |-> "BaseException"]

\* variant: every result is yielded, whatever tee says
YieldsAlways(t) == TRUE

\* "if tee: yield mapped_entry"
Yields(t) == t

\* ---- initial state: a mapper was constructed over some table ----
AuxStart == UpsertStart /\ DbStart /\ FilterStart

MapperStart ==
    /\ orig = store
    /\ session = NoSession
    /\ op = "idle"
    /\ tee = TRUE
    /\ pc = "configured"
    /\ cursor = 0
    /\ visited = <<>>
    /\ failed = {}
    /\ produced = <<>>
    /\ ctxexit = "none"
    /\ exit = "none"
    /\ raised = "none"
    /\ passes = 0
    /\ written = {}

\* no call is pending, the identifiers are plain, no table to filter
Quiet ==
    /\ pending = NoArgs
    /\ idents = 0
    /\ frows = <<>>

\* every operation idle, over an empty table
IdleInit ==
    /\ store = <<>>
    /\ MapperStart
    /\ AuxStart

Init ==
    /\ \E n \in 0..MaxRows : store \in [1..n -> 0..MaxQty]
    /\ MapperStart
    /\ AuxStart
    /\ Quiet

\* a sequence of upsert calls on one session
UpsertInit == IdleInit /\ Quiet

UpsertSpec == UpsertInit /\ [][UpsertNext]_vars

\* one upsert call with any arguments, on a table with up to MaxIdents
\* identifiers named after RETURNING
CallInit ==
    /\ IdleInit
    /\ pending \in AllArgs
    /\ idents \in 0..MaxIdents
    /\ frows = <<>>

CallSpec == CallInit /\ [][CallNext]_vars

\* calls on DB from two threads
DbInit == IdleInit /\ Quiet

DbSpec == DbInit /\ [][DbNext]_vars

\* filters set on a mapper and passes run with them
FilterInit ==
    /\ IdleInit
    /\ pending = NoArgs
    /\ idents = 0
    /\ \E n \in 0..MaxRows : frows \in [1..n -> 0..MaxQty]

FilterSpec == FilterInit /\ [][FilterNext]_vars

\* a fresh call: nothing of the previous pass is kept but the table
Begin(o, t, p) ==
    /\ pc \in {"configured", "done"}
    /\ passes < MaxPasses
    /\ passes' = passes + 1
    /\ op' = o
    /\ tee' = t
    /\ pc' = p
    /\ orig' = store
    /\ cursor' = 0
    /\ visited' = <<>>
    /\ failed' = {}
    /\ produced' = <<>>
    /\ ctxexit' = "none"
    /\ exit' = "none"
    /\ raised' = "none"
    /\ written' = {}
    /\ UNCHANGED <<store, aux>>

\* the with-block of ctx is left in the way `kind`; the pass ends for the
\* reason `why`; `seen` is what the caller of map / each gets to see
Leave(kind, why, seen, ss) ==
    LET out == ctx_exit(kind, ss) IN
    /\ session' = out.session
    /\ store' = out.store
    /\ ctxexit' = kind
    /\ exit' = why
    /\ raised' = seen
    /\ pc' = "done"

\* map(fun, tee): calling a generator function runs none of its body
StartMap(t) ==
    /\ Begin("map", t, "created")
    /\ session' = NoSession

\* each(fun): list(self.map(fun, tee=False))
StartEach ==
    /\ Begin("each", FALSE, "created")
    /\ session' = NoSession

\* the consumer asks for the next item: the generator runs from its
\* start (entering ctx) or from the yield it is suspended at
Resume ==
    /\ pc \in {"created", "suspended"}
    /\ session' = IF pc = "created" THEN new_session ELSE session
    /\ pc' = "loop"
    /\ UNCHANGED <<store, orig, op, tee, cursor, visited, failed, produced,
                   ctxexit, exit, raised, passes, written, aux>>

\* one round of the for loop: the query delivers a row, the wrapped
\* transform runs on it, and with tee its result is yielded
VisitRow(kind) ==
    /\ pc = "loop"
    /\ ~Exhausted(cursor, query(store))
    /\ LET row == query(store)[cursor + 1]
           w == _wrapped(row, store[row], kind)
           loaded == load_and_mutate(session, row, store[row])
           s1 == IF w.expunge THEN expunge(loaded, row) ELSE loaded
       IN
       /\ cursor' = cursor + 1
       /\ visited' = Append(visited, row)
       /\ failed' = IF kind = "Exception" THEN failed \cup {row} ELSE failed
       /\ IF w.propagates # "none"
          THEN /\ Leave(w.propagates, "interrupt",
                        ctx_propagates(w.propagates),
                        [session |-> s1, store |-> store])
               /\ UNCHANGED produced
          ELSE /\ session' = s1
               /\ produced' = IF Yields(tee) THEN Append(produced, w.result)
                              ELSE produced
               /\ pc' = IF Yields(tee) THEN "suspended" ELSE "loop"
               /\ UNCHANGED <<store, ctxexit, exit, raised>>
    /\ UNCHANGED <<orig, op, tee, passes, written, aux>>

\* the row iteration itself raises an Exception (the connection is lost)
IterError ==
    /\ pc = "loop"
    /\ Leave("Exception", "iter_error", ctx_propagates("Exception"),
             [session |-> session, store |-> store])
    /\ UNCHANGED <<orig, op, tee, cursor, visited, failed, produced, passes,
                   written, aux>>

\* the loop is over: session.commit(), then the with-block ends normally
Complete ==
    /\ pc = "loop"
    /\ Exhausted(cursor, query(store))
    /\ Leave("normal", "completed", ctx_propagates("normal"),
             commit([session |-> session, store |-> store]))
    /\ UNCHANGED <<orig, op, tee, cursor, visited, failed, produced, passes,
                   written, aux>>

\* the consumer of map drops the generator: an unstarted one just ends,
\* a suspended one gets GeneratorExit at its yield, which gen.close()
\* absorbs once it has left the generator
Abandon ==
    /\ op = "map"
    /\ \/ /\ pc = "created"
          /\ pc' = "done"
          /\ exit' = "abandoned"
          /\ UNCHANGED <<store, session, ctxexit, raised>>
       \/ /\ pc = "suspended"
          /\ Leave("BaseException", "abandoned", "none",
                   [session |-> session, store |-> store])
    /\ UNCHANGED <<orig, op, tee, cursor, visited, failed, produced, passes,
                   written, aux>>

\* the consumer throws an Exception into the suspended generator
ConsumerThrow ==
    /\ op = "map"
    /\ pc = "suspended"
    /\ Leave("Exception", "thrown", ctx_propagates("Exception"),
             [session |-> session, store |-> store])
    /\ UNCHANGED <<orig, op, tee, cursor, visited, failed, produced, passes,
                   written, aux>>

\* ---- a caller's own block under DB.ctx ----
StartCtx ==
    /\ Begin("ctx", FALSE, "block")
    /\ session' = new_session

\* the block changes a row it has not changed yet
BlockWrite(i) ==
    /\ pc = "block"
    /\ i \in 1..Len(store)
    /\ i \notin DOMAIN session.dirty
    /\ session' = load_and_mutate(session, i, store[i])
    /\ written' = written \cup {i}
    /\ UNCHANGED <<store, orig, op, tee, pc, cursor, visited, failed,
                   produced, ctxexit, exit, raised, passes, aux>>

\* the block commits
BlockCommit ==
    /\ pc = "block"
    /\ Count(session.log, "commit") = 0
    /\ LET out == commit([session |-> session, store |-> store]) IN
       /\ session' = out.session
       /\ store' = out.store
    /\ written' = {}
    /\ UNCHANGED <<orig, op, tee, pc, cursor, visited, failed, produced,
                   ctxexit, exit, raised, passes, aux>>

\* the block ends, normally or by raising
BlockExit(kind) ==
    /\ pc = "block"
    /\ Leave(kind, kind, ctx_propagates(kind),
             [session |-> session, store |-> store])
    /\ UNCHANGED <<orig, op, tee, cursor, visited, failed, produced, passes,
                   written, aux>>

Next ==
    \/ \E t \in BOOLEAN : StartMap(t)
    \/ StartEach
    \/ Resume
    \/ \E kind \in {"ok", "Exception", "BaseException"} : VisitRow(kind)
    \/ IterError
    \/ Complete
    \/ Abandon
    \/ ConsumerThrow
    \/ StartCtx
    \/ \E i \in DOMAIN store : BlockWrite(i)
    \/ BlockCommit
    \/ \E kind \in {"normal", "Exception", "BaseException"} : BlockExit(kind)

Spec == Init /\ [][Next]_vars

TypeOK ==
    /\ pc \in {"configured", "created", "loop", "suspended", "block", "done"}
    /\ session.status \in {"none", "open", "closed"}
    /\ cursor \in 0..Len(store)
    /\ passes \in 0..MaxPasses

\* ---- properties ----

IsPass == op \in {"map", "each"}
Started == session.status # "none"
Commits == Count(session.log, "commit")
Rollbacks == Count(session.log, "rollback")
Closes == Count(session.log, "close")

\* C1: when the block under DB.ctx raises an error (an Exception), the
\* session is rolled back exactly once and closed exactly once, and the
\* rollback comes before the close.
C1_RollbackThenClose ==
    ctxexit = "Exception" =>
        /\ Rollbacks = 1
        /\ Closes = 1
        /\ IndexOf(session.log, "rollback") < IndexOf(session.log, "close")

\* a caller's own block raised an Exception and ctx has finished
C1_Witness ==
    /\ op = "ctx"
    /\ ctxexit = "Exception"
    /\ session.status = "closed"
    /\ Len(session.log) = 2

\* C2: every session DB.ctx acquired is closed exactly once on every way
\* out of the block (normal end, an exception raised in it, a suspended
\* generator being dropped); an open session means the block is still
\* running.
C2_ClosedExactlyOnce ==
    /\ Closes <= 1
    /\ ctxexit # "none" => (session.status = "closed" /\ Closes = 1)
    /\ (pc = "done" /\ Started) => (session.status = "closed" /\ Closes = 1)
    /\ session.status = "open" =>
          (ctxexit = "none" /\ pc \in {"loop", "suspended", "block"})
    /\ session.status = "closed" => Closes = 1

\* a generator suspended inside the block was dropped by its consumer
C2_Witness ==
    /\ exit = "abandoned"
    /\ ctxexit = "BaseException"
    /\ session.status = "closed"
    /\ Len(produced) >= 1

\* C3: a pass commits at most once, and only when the transform has been
\* called on every row of the source query; while rows are still being
\* visited nothing has been committed.
C3_OneCommitAfterAllRows ==
    IsPass =>
        /\ Commits <= 1
        /\ Commits = 1 => (visited = query(orig) /\ pc = "done")
        /\ pc \in {"loop", "suspended"} => (Commits = 0 /\ store = orig)

\* a pass over several rows has committed
C3_Witness ==
    /\ IsPass
    /\ Commits = 1
    /\ Len(visited) >= 2

\* C4: a transform that raises an Exception on a row is caught: the row
\* leaves the working set, the pass is still running with its session
\* open, and a pass that completes has visited every row and committed
\* once, whichever rows failed.
C4_RowFailureNeverAborts ==
    /\ [][(pc = "loop" /\ failed' # failed) =>
             /\ pc' \in {"loop", "suspended"}
             /\ exit' = "none"
             /\ raised' = "none"
             /\ session'.status = "open"
             /\ (failed' \ failed) \cap DOMAIN session'.dirty = {}
             /\ Count(session'.log, "expunge") = Cardinality(failed')]_vars
    /\ [](exit = "completed" =>
             (visited = query(orig) /\ Commits = 1 /\ failed \subseteq DOMAIN orig))

\* a pass completed although the transform failed on its first and on
\* its last row
C4_Witness ==
    /\ exit = "completed"
    /\ Len(orig) >= 3
    /\ {1, Len(orig)} \subseteq failed

\* C5: a tee pass over N rows with one failing row hands over N-1 items,
\* all of them transformed rows.
C5_TeeYieldsOnlySuccesses ==
    (IsPass /\ tee /\ exit = "completed" /\ Cardinality(failed) = 1) =>
        /\ Len(produced) = Len(orig) - 1
        /\ \A j \in DOMAIN produced : produced[j] # None

\* C6: after a completed pass the table holds the mutated value of every
\* row the transform succeeded on and the original value of every row it
\* failed on.
C6_FailedRowsNotFlushed ==
    exit = "completed" =>
        /\ Len(store) = Len(orig)
        /\ \A i \in DOMAIN orig :
              store[i] = IF i \in failed THEN orig[i] ELSE Mutate(orig[i])

\* each() completed with some rows failed and some not
C6_Witness ==
    /\ op = "each"
    /\ exit = "completed"
    /\ failed # {}
    /\ failed # DOMAIN orig

\* C7: an error of the row iteration itself comes out of map / each as an
\* error the caller sees.
C7_WholePassErrorSurfaces ==
    exit = "iter_error" => raised = "Exception"

\* C8: a pass that fails with an error of the row iteration never
\* commits: its session is rolled back and closed, and the table is what
\* it was when the pass began.
C8_NoCommitOnWholePassError ==
    exit = "iter_error" =>
        /\ Commits = 0
        /\ Rollbacks = 1
        /\ Closes = 1
        /\ IndexOf(session.log, "rollback") < IndexOf(session.log, "close")
        /\ session.status = "closed"
        /\ store = orig

\* the iteration failed after the transform had mutated a row
C8_Witness ==
    /\ exit = "iter_error"
    /\ visited # <<>>
    /\ \E j \in DOMAIN visited : visited[j] \notin failed

\* C9: with tee false a started pass never stops at a yield and hands
\* nothing over: it can only end by completing (every row visited, one
\* commit) or by an exception inside it; each() is such a pass.
C9_TeeFalseDrains ==
    (IsPass /\ ~tee) =>
        /\ produced = <<>>
        /\ pc # "suspended"
        /\ (pc = "done" /\ Started) =>
              exit \in {"completed", "iter_error", "interrupt"}
        /\ exit = "completed" => (visited = query(orig) /\ Commits = 1)
        /\ (op = "each" /\ pc = "done") => Started

\* each() ran over several rows to its commit
C9_Witness ==
    /\ op = "each"
    /\ exit = "completed"
    /\ Len(visited) >= 2
    /\ produced = <<>>

\* C10: a started pass ends by completing or by failing, never by being
\* stopped part-way, whatever the consumer does.
C10_CompletesOrFails ==
    (IsPass /\ pc = "done" /\ Started) =>
        exit \in {"completed", "iter_error", "interrupt"}

\* C20: when a block under DB.ctx ends normally, ctx only closes the
\* session: it neither commits nor rolls back, so the table stays what
\* the block's own commits made it and uncommitted writes are lost.
C20_NormalExitOnlyCloses ==
    /\ [][(pc = "block" /\ ctxexit' = "normal") =>
             /\ store' = store
             /\ session'.log = Append(session.log, "close")
             /\ session'.status = "closed"]_vars
    /\ [](op = "ctx" /\ ctxexit = "normal" =>
             /\ Rollbacks = 0
             /\ Closes = 1
             /\ Commits = 0 => store = orig)

\* a block changed rows, did not commit them, and ended normally
C20_Witness ==
    /\ op = "ctx"
    /\ ctxexit = "normal"
    /\ written # {}
    /\ store = orig

\* ---- properties of the upsert engine ----

\* the columns of a record that hold a value
Present(e) == {c \in Cols : e[c] # NULL}

\* the update set the call's arguments ask for
Asked(a) ==
    (IF a.update_fields.given THEN a.update_fields.fields
     ELSE Present(a.entry)) \ a.exclude_fields

RowsOf(t, k) == {r \in t : r["id"] = k}

\* C11: the SET list of insert_or_update's statement never names the
\* conflict column.
C11_ConflictColumnNeverUpdated ==
    call.args.fn = "insert_or_update" =>
        call.stmt.column \notin call.stmt.updates

\* C12: the SET list of insert_or_update's statement is update_fields
\* minus exclude_fields, update_fields being the present columns when
\* omitted; it holds no excluded column, and the inserted columns are the
\* present columns.
C12_UpdateSetExact ==
    call.args.fn = "insert_or_update" =>
        /\ call.stmt.kind = "DO UPDATE"
        /\ call.stmt.column = call.args.column
        /\ call.stmt.updates = Asked(call.args)
        /\ call.stmt.updates \cap call.args.exclude_fields = {}
        /\ DOMAIN call.stmt.params = Present(call.args.entry)

\* update_fields omitted, and a present column excluded
C12_Witness ==
    /\ call.args.fn = "insert_or_update"
    /\ ~call.args.update_fields.given
    /\ call.args.exclude_fields \cap Present(call.args.entry) # {}
    /\ call.stmt.updates # {}

\* C13: a second insert_or_update on the key of a first one leaves one
\* row for the key: the columns of its update set hold the second call's
\* values, every other column holds what the first call left, and no
\* other row changes.
C13_SecondUpsertMerges ==
    (/\ prev.fn = "insert_or_update"
     /\ prev.rowcount = 1
     /\ call.args.fn = "insert_or_update"
     /\ call.key = prev.key) =>
        /\ Cardinality(RowsOf(table, call.key)) = 1
        /\ Cardinality(RowsOf(before, call.key)) = 1
        /\ table \ RowsOf(table, call.key)
              = before \ RowsOf(before, call.key)
        /\ \A r \in RowsOf(table, call.key), o \in RowsOf(before, call.key) :
              /\ \A c \in Cols \ Asked(call.args) : r[c] = o[c]
              /\ call.rowcount = 1 =>
                    \A c \in Asked(call.args) : r[c] = call.args.entry[c]
              /\ call.rowcount # 1 => r = o

\* the spec's scenario: the second call leaves name unset and excludes
\* id; the row keeps the first name and takes the second qty
C13_Witness ==
    /\ prev.fn = "insert_or_update"
    /\ call.args.fn = "insert_or_update"
    /\ call.args.exclude_fields = {"id"}
    /\ call.args.entry["name"] = NULL
    /\ call.rowcount = 1
    /\ \E r \in table, o \in before :
          /\ r["id"] = 1
          /\ o["id"] = 1
          /\ o["name"] # NULL
          /\ r["name"] = o["name"]
          /\ r["qty"] = call.args.entry["qty"]
          /\ r["qty"] # o["qty"]

\* C14: a second insert_or_ignore with the key of a first one leaves one
\* row for the key, changes nothing in the table and reports zero rows;
\* the first, made on a table without the key, reports one.
C14_SecondIgnoreIsNoop ==
    (/\ prev.fn = "insert_or_ignore"
     /\ call.args.fn = "insert_or_ignore"
     /\ call.key = prev.key) =>
        /\ Cardinality(RowsOf(table, call.key)) = 1
        /\ table = before
        /\ call.rowcount = 0
        /\ ncalls = 2 => prev.rowcount = 1

\* the second call carried other values than the row holds
C14_Witness ==
    /\ prev.fn = "insert_or_ignore"
    /\ call.args.fn = "insert_or_ignore"
    /\ call.key = prev.key
    /\ ncalls = 2
    /\ call.rowcount = 0
    /\ \E r \in table :
          /\ r["id"] = call.key
          /\ r["qty"] # NULL
          /\ call.args.entry["qty"] # NULL
          /\ r["qty"] # call.args.entry["qty"]

\* C15: get_model_dict gives exactly the columns of the record that hold
\* a value, each with the record's value, as many as are present.
C15_ModelDictIsPresentColumns ==
    call.args.fn # "none" =>
        /\ DOMAIN call.stmt.params = Present(call.args.entry)
        /\ \A c \in DOMAIN call.stmt.params :
              /\ call.stmt.params[c] = call.args.entry[c]
              /\ call.stmt.params[c] # NULL
        /\ Cardinality(DOMAIN call.stmt.params)
              = Cardinality(Present(call.args.entry))

\* a record with an unset column and a column holding 0
C15_Witness ==
    /\ call.args.fn # "none"
    /\ call.args.entry["name"] = NULL
    /\ call.args.entry["qty"] = 0
    /\ DOMAIN call.stmt.params = {"id", "qty"}

\* ---- properties of the connection manager ----

\* C16: init_db(force=False), and so DB(), changes nothing when the
\* calling thread has an engine; a forced call, or one that finds the
\* engine None, replaces the engine and both factories together by a new
\* engine; unforced calls create at most one engine per thread state, so
\* without forced calls there is never more than one engine.
C16_InitGuard ==
    /\ [][(ndb' = ndb + 1 /\ last'.fn \in {"init_db", "DB"}) =>
             LET t == last'.thread IN
             /\ (~last'.force /\ local[t].engine >= 1) =>
                   (local' = local /\ engines' = engines
                    /\ last'.result = "ok")
             /\ (last'.force \/ local[t].engine = NULL) =>
                   /\ engines' = engines + 1
                   /\ local'[t] = [engine |-> engines',
                                   Session |-> engines',
                                   AutoSession |-> engines']
                   /\ \A u \in Threads \ {t} : local'[u] = local[u]]_vars
    /\ [](engines <= forced + 1)
    /\ [](\A t \in Threads :
             (local[t].engine >= 1) =>
                 (local[t].Session = local[t].engine
                  /\ local[t].AutoSession = local[t].engine))

\* DB() was constructed three times and one engine exists
C16_Witness ==
    /\ ndb >= 3
    /\ forced = 0
    /\ engines = 1
    /\ last.fn = "DB"
    /\ last.result = "ok"

\* C17: once any caller has initialised DB, every thread has the same
\* engine and session factories.
C17_ProcessWideState ==
    engines >= 1 =>
        \A t, u \in Threads :
            /\ local[t].engine >= 1
            /\ local[t] = local[u]

\* ---- properties of the filter and of the rendering ----

\* the rows of t that satisfy every criterion of the sequence cs
Matching(t, cs) ==
    SelectSeq([i \in 1..Len(t) |-> i],
              LAMBDA i : \A j \in DOMAIN cs : Sat(cs[j], t[i]))

\* C18: with no filter set a pass visits every row; after the filter is
\* set to a sequence of criteria C it reads back as C, and a pass visits
\* exactly the rows that satisfy every criterion of C.
C18_FilterSelectsRows ==
    /\ (fvisit.status # "none" /\ ~fvisit.set) =>
          (fvisit.status = "ok" /\ fvisit.rows = Matching(frows, <<>>))
    /\ fset.kind = "seq" =>
          /\ _filter = fset
          /\ fvisit.status # "none" =>
                (fvisit.status = "ok"
                 /\ fvisit.rows = Matching(frows, fset.items))

\* blanks that follow a blank are dropped
RECURSIVE Squeeze(_)
Squeeze(str) ==
    IF Len(str) < 2 THEN str
    ELSE IF str[1] = " " /\ str[2] = " " THEN Squeeze(Tail(str))
    ELSE <<str[1]>> \o Squeeze(Tail(str))

HasReturningClause(str) ==
    /\ Len(str) >= 4
    /\ SubSeq(str, Len(str) - 3, Len(str)) = ReturningClause

\* C19: the rendered INSERT holds the conflict clause once: right before
\* the RETURNING keyword when the compiled statement has a RETURNING
\* clause, at the end when it has none, the rest of the text (blanks
\* aside) being the compiled statement.
C19_ClauseBeforeReturning ==
    call.args.fn # "none" =>
        /\ Count(call.rendered, CLAUSE) = 1
        /\ HasReturningClause(call.compiled) =>
              Squeeze(call.rendered)
                 = SubSeq(call.compiled, 1, Len(call.compiled) - 4)
                      \o <<" ", CLAUSE>> \o ReturningClause
        /\ ~HasReturningClause(call.compiled) =>
              call.rendered = call.compiled \o <<" ", CLAUSE>>

====
